---- MODULE Spec2Model ----
(***************************************************************************)
(* Conversational routing and section editing of the resume assistant:     *)
(* the graph of graph_builder.py (router node, one node per section,       *)
(* route_to_section), the router of general_chat_section_routing.py, the   *)
(* section node, answer reconciliation, apply and CV summary of            *)
(* create_section_node.py and the gateway of utils.py.                     *)
(*                                                                         *)
(* A text is a sequence of one-character strings, so that len(), strip(),  *)
(* lower(), split(), slicing and the substring test `p in t` are computed  *)
(* as Python computes them.  None is the value NoneVal.                    *)
(***************************************************************************)
EXTENDS Integers, Sequences, FiniteSets, TLC

NoneVal == "<None>"

\* ------------------------------------------------------------------ texts

Whitespace == {" ", "\t", "\n"}

UpperLetters == <<"A","B","C","D","E","F","G","H","I","J","K","L","M","N","O","P","Q","R","S","T","U","V","W","X","Y","Z">>

LowerLetters == <<"a","b","c","d","e","f","g","h","i","j","k","l","m","n","o","p","q","r","s","t","u","v","w","x","y","z">>

\* one character of str.lower()
LowerChar(c) ==
    IF \E i \in 1..26 : UpperLetters[i] = c
    THEN LowerLetters[CHOOSE i \in 1..26 : UpperLetters[i] = c]
    ELSE c

\* str.lower()
Lower(t) == [i \in 1..Len(t) |-> LowerChar(t[i])]

\* t[:n]
Take(t, n) == IF Len(t) <= n THEN t ELSE SubSeq(t, 1, n)

\* the Python test `p in t` on strings
Contains(t, p) ==
    \E i \in 0..(Len(t) - Len(p)) : \A j \in 1..Len(p) : t[i + j] = p[j]

\* str.strip()
Strip(t) ==
    LET keep == {i \in 1..Len(t) : t[i] \notin Whitespace}
    IN  IF keep = {} THEN <<>>
        ELSE LET lo == CHOOSE i \in keep : \A j \in keep : i <= j
                 hi == CHOOSE i \in keep : \A j \in keep : j <= i
             IN  SubSeq(t, lo, hi)

\* set(t.split()): the maximal runs of non-whitespace characters of t
Words(t) ==
    {SubSeq(t, a, b) : <<a, b>> \in
        {ab \in (1..Len(t)) \X (1..Len(t)) :
            /\ ab[1] <= ab[2]
            /\ \A k \in ab[1]..ab[2] : t[k] \notin Whitespace
            /\ (ab[1] = 1 \/ t[ab[1] - 1] \in Whitespace)
            /\ (ab[2] = Len(t) \/ t[ab[2] + 1] \in Whitespace)}}

\* the truth value Python gives a string
Truthy(t) == Len(t) > 0

\* [""] * n
EmptyAnswers(n) == [i \in 1..n |-> <<>>]

\* ------------------------------------------------------------ constants

SECTION_NAMES == <<"skills", "experiences", "education", "projects", "summary", "contact", "certificates", "publications", "languages", "recommendations", "custom">>

SectionNameSet == {SECTION_NAMES[i] : i \in 1..Len(SECTION_NAMES)}

END == "__end__"

AnalyzeUserQuery == "AnalyzeUserQuery"

\* the characters of a section name
NameText(s) ==
    CASE s = "skills" -> <<"s","k","i","l","l","s">>
      [] s = "experiences" -> <<"e","x","p","e","r","i","e","n","c","e","s">>
      [] s = "education" -> <<"e","d","u","c","a","t","i","o","n">>
      [] s = "projects" -> <<"p","r","o","j","e","c","t","s">>
      [] s = "summary" -> <<"s","u","m","m","a","r","y">>
      [] s = "contact" -> <<"c","o","n","t","a","c","t">>
      [] s = "certificates" -> <<"c","e","r","t","i","f","i","c","a","t","e","s">>
      [] s = "publications" -> <<"p","u","b","l","i","c","a","t","i","o","n","s">>
      [] s = "languages" -> <<"l","a","n","g","u","a","g","e","s">>
      [] s = "recommendations" -> <<"r","e","c","o","m","m","e","n","d","a","t","i","o","n","s">>
      [] s = "custom" -> <<"c","u","s","t","o","m">>

\* the trigger phrases of a section: "/name", "go to name" and the section's own extras
SECTION_ROUTE_PATTERNS(s) ==
    {<<"/">> \o NameText(s), <<"g","o"," ","t","o"," ">> \o NameText(s)}
    \cup
    (CASE s = "skills" -> {<<"s","w","i","t","c","h"," ","t","o"," ">> \o NameText(s)}
       [] s = "experiences" -> {<<"s","w","i","t","c","h"," ","t","o"," ">> \o NameText(s),
                                <<"e","x","p","e","r","i","e","n","c","e"," ","s","e","c","t","i","o","n">>}
       [] s = "projects" -> {<<"p","r","o","j","e","c","t"," ","s","e","c","t","i","o","n">>}
       [] OTHER -> {NameText(s) \o <<" ","s","e","c","t","i","o","n">>})

EXIT_KEYWORDS ==
    {<<"/","e","x","i","t">>,
     <<"b","a","c","k"," ","t","o"," ","c","h","a","t">>,
     <<"g","e","n","e","r","a","l"," ","c","h","a","t">>,
     <<"l","e","a","v","e"," ","s","e","c","t","i","o","n">>}

\* the answer below which a recorded answer counts as not yet given
MIN_ANSWER_LEN == 5

\* ----------------------------------------------------------- bounds, inputs

\* the longest question list an analysis (initial or re-analysis) carries
MaxQuestions == 2

QUESTIONS == <<<<"k","n","o","w"," ","j","a","v","a">>, <<"u","s","e"," ","a","w","s">>, <<"j","a","v","a"," ","o","r"," ","g","o">>, <<"w","h","y">>>>

\* the first n questions of the question pool
QuestionList(n) == [i \in 1..n |-> QUESTIONS[((i - 1) % Len(QUESTIONS)) + 1]]

\* answers a decision delivers: none, below the threshold, above it
AnswerTexts == {<<>>, <<"y">>, <<"l","o","n","g","e","r">>}

\* answers already stored: none, five characters of which one is left after
\* trimming, six characters
ExistingTexts == {<<>>, <<"x"," "," "," "," ">>, <<"f","u","l","l","e","r">>}

\* the sequences over S of length lo..hi
SeqsBetween(S, lo, hi) == UNION {[1..k -> S] : k \in {j \in 0..hi : j >= lo}}

\* what the user types in a turn
Utterances ==
    {<<"h","i">>,
     <<"j","a","v","a">>,
     <<"/","e","x","i","t">>,
     <<"/","s","k","i","l","l","s">>}

\* a word of no question, the second word of the second question, the
\* trigger of another section, the triggers of two sections, an exit phrase
ProbeUtterances ==
    {<<"h","i">>,
     <<"a","w","s">>,
     <<"/","e","d","u","c","a","t","i","o","n">>,
     <<"/","S","k","i","l","l","s"," ","/","e","d","u","c","a","t","i","o","n">>,
     <<"/","e","x","i","t">>}

SESSION_START == <<"S","E","S","S","I","O","N","_","S","T","A","R","T">>

\* every text a node reads as the latest message of the user
UserTexts == Utterances \cup ProbeUtterances \cup {SESSION_START, <<>>}

\* route values a decision carries: analysed, known but not analysed, unknown
Routes == {"skills", "education", "hobbies", NoneVal}

\* ------------------------------------------------------------------ maps

EmptyMap == [k \in {} |-> NoneVal]

\* d[k] = v
Put(d, k, v) == [x \in (DOMAIN d) \cup {k} |-> IF x = k THEN v ELSE d[x]]

\* --------------------------------------------------------------- messages

\* state.make_message(role, content); the content is kept as its kind, the
\* text an LLM supplied, the route of a routing signal, the names it lists and
\* the score it reports
Message(role, kind, text, route, names, score) ==
    [role |-> role, kind |-> kind, text |-> text, route |-> route, names |-> names,
     score |-> score]

TextMessage(kind, text) == Message("assistant", kind, text, NoneVal, {}, 0)

\* json.dumps({"route": s, ...}): a bare routing signal
RouteSignal(kind, s) == Message("assistant", kind, <<>>, s, {}, 0)

IsRouteSignal(m) == m.kind \in {"route_signal", "route_confirm", "switch_signal"}

\* a node execution in progress: the state it mutates, the messages it has
\* appended to state.context, the completion calls it has made and whether an
\* exception has left the node
Exec(st) == [state |-> st, out |-> <<>>, llm_calls |-> 0, raised |-> FALSE]

\* state.context.append(m)
AppendMessage(x, m) ==
    [x EXCEPT !.state.context.last_role = m.role, !.out = Append(@, m)]

\* ---------------------------------------------------------------- gateway

OFFLINE_ANSWER == <<"(","O","f","f","l","i","n","e",")"," ","I"," ","r","e","c","e","i","v","e","d"," ","y","o","u","r"," ","q","u","e","r","y"," ","a","n","d"," ","w","i","l","l"," ","h","e","l","p"," ","o","n","c","e"," ","a","n"," ","A","P","I"," ","k","e","y"," ","i","s"," ","c","o","n","f","i","g","u","r","e","d",".">>

GATEWAY_ERROR_ANSWER == <<"I"," ","e","n","c","o","u","n","t","e","r","e","d"," ","a","n"," ","e","r","r","o","r"," ","p","r","o","c","e","s","s","i","n","g"," ","y","o","u","r"," ","r","e","q","u","e","s","t","."," ","P","l","e","a","s","e"," ","t","r","y"," ","a","g","a","i","n",".">>

\* a decision object; has_* tell whether the key is in the parsed object,
\* question_matches holds the indices of the list (0-based, as in the code)
Decision(action, route, answer, content, has_qm, qm, has_ua, ua) ==
    [action |-> action, route |-> route, answer |-> answer,
     updated_section_content |-> content,
     has_question_matches |-> has_qm, question_matches |-> qm,
     has_updated_answers |-> has_ua, updated_answers |-> ua]

PlainDecision(action, route, answer) ==
    Decision(action, route, answer, <<>>, FALSE, {}, FALSE, <<>>)

OfflineDecision == PlainDecision("answer", NoneVal, OFFLINE_ANSWER)

GatewayErrorDecision == PlainDecision("answer", NoneVal, GATEWAY_ERROR_ANSWER)

VALID_ACTIONS == {"answer", "route", "stay", "switch", "exit", "apply"}

\* ----------------------------------------------------------------- parser

\* JSON texts of the model
JSON_STAY == <<"{","\"","a","c","t","i","o","n","\"",":","\"","s","t","a","y","\"","}">>

JSON_EXIT == <<"{","\"","a","c","t","i","o","n","\"",":","\"","e","x","i","t","\"","}">>

JSON_FLY == <<"{","\"","a","c","t","i","o","n","\"",":","\"","f","l","y","\"","}">>

JSON_FLY_ROUTE == <<"{","\"","a","c","t","i","o","n","\"",":","\"","f","l","y","\"",",","\"","r","o","u","t","e","\"",":","\"","s","k","i","l","l","s","\"","}">>

JSON_LIST_ACTION == <<"{","\"","a","c","t","i","o","n","\"",":","[","]","}">>

\* a JSON list as the value of a key: a Python list, which cannot be hashed
ListValue == "<list>"

JSON_ROUTE == <<"{","\"","a","c","t","i","o","n","\"",":","\"","r","o","u","t","e","\"",",","\"","r","o","u","t","e","\"",":","\"","s","k","i","l","l","s","\"","}">>

JSON_NO_ACTION == <<"{","\"","r","o","u","t","e","\"",":","\"","s","k","i","l","l","s","\"","}">>

JSON_EMPTY == <<"{","}">>

JSON_INNER == <<"{","\"","b","\"",":","{","}","}">>

\* json.loads on the object texts of the model: the keys the object has and
\* their values; a text that is not listed is not valid JSON
JsonObjects ==
    {[text |-> JSON_STAY, has_action |-> TRUE, action |-> "stay", route |-> NoneVal],
     [text |-> JSON_EXIT, has_action |-> TRUE, action |-> "exit", route |-> NoneVal],
     [text |-> JSON_FLY, has_action |-> TRUE, action |-> "fly", route |-> NoneVal],
     [text |-> JSON_FLY_ROUTE, has_action |-> TRUE, action |-> "fly", route |-> "skills"],
     [text |-> JSON_LIST_ACTION, has_action |-> TRUE, action |-> ListValue, route |-> NoneVal],
     [text |-> JSON_ROUTE, has_action |-> TRUE, action |-> "route", route |-> "skills"],
     [text |-> JSON_NO_ACTION, has_action |-> FALSE, action |-> NoneVal, route |-> "skills"],
     [text |-> JSON_EMPTY, has_action |-> FALSE, action |-> NoneVal, route |-> NoneVal],
     [text |-> JSON_INNER, has_action |-> FALSE, action |-> NoneVal, route |-> NoneVal]}

\* the raw texts a completion returns: empty, blank, prose, an object alone
\* and inside prose, an unexpected action alone and with a route, a list as
\* action, objects without action, braces
\* that are no JSON, an unclosed brace, an object nested too deep for the pattern
RawTexts ==
    {<<>>,
     <<" "," ">>,
     <<" ","h","i"," ">>,
     JSON_STAY,
     <<"o","k"," ">> \o JSON_EXIT \o <<" ","x">>,
     JSON_FLY,
     JSON_FLY_ROUTE,
     JSON_LIST_ACTION,
     JSON_ROUTE,
     JSON_NO_ACTION,
     JSON_EMPTY,
     <<"{","s","t","a","y","}">>,
     <<"{"," ","h","i">>,
     <<"{","\"","a","\"",":">> \o JSON_INNER \o <<"}">>}

RECURSIVE BraceScan(_, _, _)
\* where the pattern \{[^{}]*(?:\{[^{}]*\}[^{}]*)*\} ends when it has
\* consumed t up to position j - 1 and is `depth` braces deep; 0: no match
BraceScan(t, j, depth) ==
    IF j > Len(t) THEN 0
    ELSE IF t[j] = "{" THEN (IF depth = 1 THEN BraceScan(t, j + 1, 2) ELSE 0)
    ELSE IF t[j] = "}" THEN (IF depth = 1 THEN j ELSE BraceScan(t, j + 1, 1))
    ELSE BraceScan(t, j + 1, depth)

\* re.search of the pattern: the leftmost match, <<>> for none (a match is
\* never empty)
json_match(t) ==
    LET starts == {i \in 1..Len(t) : t[i] = "{" /\ BraceScan(t, i + 1, 1) > 0}
    IN  IF starts = {} THEN <<>>
        ELSE LET i == CHOOSE a \in starts : \A b \in starts : a <= b
             IN  SubSeq(t, i, BraceScan(t, i + 1, 1))

\* the parser raising when it finds no object in the text
parse_requiring_object(raw_text) ==
    LET failed == [raised |-> "ValueError", decision |-> PlainDecision(NoneVal, NoneVal, <<>>)]
        json_text == json_match(raw_text)
    IN  IF ~Truthy(raw_text) \/ ~Truthy(Strip(raw_text)) THEN failed
        ELSE IF json_text = <<>>
        THEN failed
        ELSE IF \A o \in JsonObjects : o.text # json_text THEN failed
        ELSE LET parsed == CHOOSE o \in JsonObjects : o.text = json_text
             IN  IF ~parsed.has_action THEN failed
                 ELSE IF parsed.action = ListValue
                 THEN [raised |-> "TypeError",
                       decision |-> PlainDecision(NoneVal, NoneVal, <<>>)]
                 ELSE [raised |-> "no",
                       decision |-> PlainDecision(IF parsed.action \in VALID_ACTIONS
                                                  THEN parsed.action ELSE "answer",
                                                  parsed.route, <<>>)]

\* extract_and_validate_json: the decision, or the ValueError it raises, or
\* the TypeError of the membership test of line 102 on a list
extract_and_validate_json(raw_text) ==
    LET failed == [raised |-> "ValueError", decision |-> PlainDecision(NoneVal, NoneVal, <<>>)]
        json_text == json_match(raw_text)
    IN  IF ~Truthy(raw_text) \/ ~Truthy(Strip(raw_text)) THEN failed
        ELSE IF json_text = <<>>
        THEN [raised |-> "no", decision |-> PlainDecision("answer", NoneVal, Strip(raw_text))]
        ELSE IF \A o \in JsonObjects : o.text # json_text THEN failed
        ELSE LET parsed == CHOOSE o \in JsonObjects : o.text = json_text
             IN  IF ~parsed.has_action THEN failed
                 ELSE IF parsed.action = ListValue
                 THEN [raised |-> "TypeError",
                       decision |-> PlainDecision(NoneVal, NoneVal, <<>>)]
                 ELSE [raised |-> "no",
                       decision |-> PlainDecision(IF parsed.action \in VALID_ACTIONS
                                                  THEN parsed.action ELSE "answer",
                                                  parsed.route, <<>>)]

\* the parser on the raw texts of the model, as a table
ParsedRaw == [t \in RawTexts |-> extract_and_validate_json(t)]

\* the answers (question_matches, updated_answers) a decision delivers
AnswerPayloads ==
    {<<FALSE, {}, FALSE, <<>> >>,
     <<TRUE, {1}, TRUE, << <<>>, <<"f","u","l","l","e","r">> >> >>,
     <<TRUE, {0, 2}, TRUE, << <<"f","u","l","l","e","r">> >> >>,
     <<FALSE, {}, TRUE, << <<"x">>, <<"f","u","l","l","e","r">> >> >>,
     <<TRUE, {0}, FALSE, <<>> >>}

DecisionAnswers == {<<>>, <<"o","k">>}

SectionContents == {<<>>, <<"n","e","w">>}

\* the decisions a successful, parsable completion can carry; a field is
\* varied only under the actions whose handling reads it
Decisions ==
    {Decision(a, NoneVal, t, <<>>, p[1], p[2], p[3], p[4]) :
        a \in {"answer", "stay"}, t \in DecisionAnswers, p \in AnswerPayloads}
    \cup {Decision("route", r, t, <<>>, p[1], p[2], p[3], p[4]) :
        r \in Routes, t \in DecisionAnswers, p \in AnswerPayloads}
    \cup {Decision("switch", r, <<>>, <<>>, p[1], p[2], p[3], p[4]) :
        r \in Routes, p \in AnswerPayloads}
    \cup {Decision("exit", NoneVal, t, <<>>, p[1], p[2], p[3], p[4]) :
        t \in DecisionAnswers, p \in AnswerPayloads}
    \cup {Decision("apply", NoneVal, <<>>, c, p[1], p[2], p[3], p[4]) :
        c \in SectionContents, p \in {q \in AnswerPayloads : q[1] = q[3]}}

\* what the completion service does with one request of the gateway: the call
\* raises, the response text does not parse into a decision, or it does
GatewayResponses ==
    {[kind |-> "transport_error", decision |-> GatewayErrorDecision],
     [kind |-> "unparsable", decision |-> GatewayErrorDecision]}
    \cup {[kind |-> "decision", decision |-> d] : d \in Decisions}

\* the gateway letting the exception of a failed completion call through
gateway_propagating(off, resp) ==
    IF off
    THEN [raised |-> "no", decision |-> OfflineDecision, calls |-> 0]
    ELSE IF resp.kind = "decision"
         THEN [raised |-> "no", decision |-> resp.decision, calls |-> 1]
         ELSE IF resp.kind = "text" /\ ParsedRaw[resp.text].raised = "no"
         THEN [raised |-> "no", decision |-> ParsedRaw[resp.text].decision, calls |-> 1]
         ELSE IF resp.kind = "text"
         THEN [raised |-> "no", decision |-> GatewayErrorDecision, calls |-> 1]
         ELSE [raised |-> "Exception", decision |-> GatewayErrorDecision, calls |-> 1]

\* the gateway answering a failure with an empty stay decision
gateway_silent_on_failure(off, resp) ==
    IF off
    THEN [raised |-> "no", decision |-> OfflineDecision, calls |-> 0]
    ELSE IF resp.kind = "decision"
         THEN [raised |-> "no", decision |-> resp.decision, calls |-> 1]
         ELSE IF resp.kind = "text" /\ ParsedRaw[resp.text].raised = "no"
         THEN [raised |-> "no", decision |-> ParsedRaw[resp.text].decision, calls |-> 1]
         ELSE [raised |-> "no", decision |-> PlainDecision("stay", NoneVal, <<>>), calls |-> 1]

\* the gateway asking the completion service also in offline mode
gateway_always_calling(off, resp) ==
    IF resp.kind = "decision"
    THEN [raised |-> "no", decision |-> resp.decision, calls |-> 1]
    ELSE IF resp.kind = "text" /\ ParsedRaw[resp.text].raised = "no"
    THEN [raised |-> "no", decision |-> ParsedRaw[resp.text].decision, calls |-> 1]
    ELSE [raised |-> "no", decision |-> GatewayErrorDecision, calls |-> 1]

\* call_llm_json_decision: offline, the fixed decision and no request; online,
\* one request, and every exception of the call or of the parser is caught
\* and answered with the apology decision.  raised names the exception that
\* leaves the gateway ("no": none)
call_llm_json_decision(off, resp) ==
    IF off
    THEN [raised |-> "no", decision |-> OfflineDecision, calls |-> 0]
    ELSE IF resp.kind = "decision"
         THEN [raised |-> "no", decision |-> resp.decision, calls |-> 1]
         ELSE IF resp.kind = "text" /\ ParsedRaw[resp.text].raised = "no"
         THEN [raised |-> "no", decision |-> ParsedRaw[resp.text].decision, calls |-> 1]
         ELSE [raised |-> "no", decision |-> GatewayErrorDecision, calls |-> 1]

\* ----------------------------------------------------------------- router

\* what the fallback completion of the router does
FallbackResponses == {"error", "empty", "text"}

\* lines 58-134 of general_chat_and_section_routing: the router in general mode
general_chat(st, off, resp, fb) ==
        LET x0 == Exec(st)
            g == call_llm_json_decision(off, resp)
            x1 == [x0 EXCEPT !.llm_calls = @ + g.calls]
            d == g.decision
        IN  IF g.raised # "no"
            THEN LET x2 == [x1 EXCEPT !.llm_calls = @ + 1]
                 IN  AppendMessage(x2,
                        TextMessage(CASE fb = "error" -> "fallback_unavailable"
                                      [] fb = "empty" -> "fallback_no_response"
                                      [] OTHER -> "fallback_text", <<>>))
            ELSE IF d.action = "route" /\ d.route # NoneVal /\ d.route \in SectionNameSet
            THEN AppendMessage([x1 EXCEPT !.state.current_section = d.route],
                               RouteSignal("route_confirm", d.route))
            ELSE IF d.action = "answer"
            THEN AppendMessage(x1,
                    IF Truthy(d.answer) THEN TextMessage("text", d.answer)
                    ELSE TextMessage("cannot_determine", <<>>))
            ELSE AppendMessage(x1, TextMessage("could_not_decide", <<>>))

\* the router without its short-circuit for an active section
router_always_deciding(st, off, resp, fb) == general_chat(st, off, resp, fb)

\* the router as its docstring has it: it also rewrites the section metadata
router_updating_sections(st, off, resp, fb) ==
    LET x == IF st.current_section # NoneVal
             THEN AppendMessage(Exec(st), RouteSignal("route_signal", st.current_section))
             ELSE general_chat(st, off, resp, fb)
        so == x.state.section_objects
    IN  [x EXCEPT !.state.section_objects =
                     [s \in DOMAIN so |-> [so[s] EXCEPT !.alignment_score = 0]]]

\* the router honouring the trigger phrases of the sections itself
router_with_direct_routing(st, off, resp, fb) ==
    LET user_text == IF st.context.has_user THEN st.context.user_text ELSE <<>>
        hit == {n \in SectionNameSet :
                   \E p \in SECTION_ROUTE_PATTERNS(n) : Contains(Lower(user_text), p)}
        direct == IF hit = {} THEN NoneVal ELSE CHOOSE n \in hit : TRUE
    IN  IF st.current_section # NoneVal
        THEN AppendMessage(Exec(st), RouteSignal("route_signal", st.current_section))
        ELSE IF direct # NoneVal
        THEN AppendMessage([Exec(st) EXCEPT !.state.current_section = direct],
                           RouteSignal("route_confirm", direct))
        ELSE general_chat(st, off, resp, fb)

\* general_chat_and_section_routing
general_chat_and_section_routing(st, off, resp, fb) ==
    IF st.current_section # NoneVal
    THEN AppendMessage(Exec(st), RouteSignal("route_signal", st.current_section))
    ELSE general_chat(st, off, resp, fb)

\* ------------------------------------------------------------------ graph

\* route_to_section without the comparison of src_node with current_section
route_ignoring_src_node(st) ==
    IF st.current_section = NoneVal THEN "general_chat"
    ELSE IF st.current_section \in SectionNameSet THEN st.current_section
    ELSE END

\* route_to_section sending every active section to the first section's node
route_to_first_section(st) ==
    IF st.src_node = st.current_section THEN END
    ELSE IF st.current_section = NoneVal THEN "general_chat"
    ELSE IF st.current_section \in SectionNameSet THEN SECTION_NAMES[1]
    ELSE END

\* route_to_section: the label the conditional edge is looked up with
route_to_section(st) ==
    IF st.src_node = st.current_section THEN END
    ELSE IF st.current_section = NoneVal THEN "general_chat"
    ELSE IF st.current_section \in SectionNameSet THEN st.current_section
    ELSE END

\* the labels of the routing map registered for the router
routing_map == SectionNameSet \cup {END}

\* the labels of the routing map registered for every section node
section_routing_map == SectionNameSet \cup {"general_chat", END}

\* ---------------------------------------------------------- section node

\* detect_direct_routing: the first section, in the order of
\* SECTION_ROUTE_PATTERNS, one of whose patterns occurs in the lowered text
detect_direct_routing(text) ==
    LET t == Lower(text)
        hit == {i \in 1..Len(SECTION_NAMES) :
                   \E p \in SECTION_ROUTE_PATTERNS(SECTION_NAMES[i]) : Contains(t, p)}
    IN  IF hit = {} THEN NoneVal
        ELSE SECTION_NAMES[CHOOSE i \in hit : \A j \in hit : i <= j]

\* any(kw in user_text.lower() for kw in [...exit phrases...])
IsExitPhrase(text) == \E kw \in EXIT_KEYWORDS : Contains(Lower(text), kw)

\* detect_direct_routing and the exit test on the texts of the model, as tables
DirectRouting == [t \in UserTexts |-> detect_direct_routing(t)]

ExitPhrase == [t \in UserTexts |-> IsExitPhrase(t)]

\* safe_initialize_answers starting afresh when the lengths differ
initialize_discarding(st, section_name, questions) ==
    IF section_name \notin DOMAIN st.recommended_answers
    THEN [st EXCEPT !.recommended_answers = Put(@, section_name, EmptyAnswers(Len(questions)))]
    ELSE IF Len(st.recommended_answers[section_name]) # Len(questions)
         THEN [st EXCEPT !.recommended_answers[section_name] = EmptyAnswers(Len(questions))]
         ELSE st

\* safe_initialize_answers
safe_initialize_answers(st, section_name, questions) ==
    IF section_name \notin DOMAIN st.recommended_answers
    THEN [st EXCEPT !.recommended_answers = Put(@, section_name, EmptyAnswers(Len(questions)))]
    ELSE LET current_answers == st.recommended_answers[section_name]
         IN  IF Len(current_answers) # Len(questions)
             THEN [st EXCEPT !.recommended_answers[section_name] =
                      [i \in 1..Len(questions) |->
                          IF i <= Len(current_answers) THEN current_answers[i] ELSE <<>>]]
             ELSE st

\* the words the answer shares with question idx (1-based) of the list
CommonWords(user_answer, questions, idx) ==
    Words(Lower(user_answer)) \cap Words(Lower(questions[idx]))

\* confidence of a beats confidence of b:  |ca|/max(|qa|,1) > |cb|/max(|qb|,1)
MoreConfident(user_answer, questions, a, b) ==
    LET ca == Cardinality(CommonWords(user_answer, questions, a))
        cb == Cardinality(CommonWords(user_answer, questions, b))
        qa == Cardinality(Words(Lower(questions[a])))
        qb == Cardinality(Words(Lower(questions[b])))
        da == IF qa > 1 THEN qa ELSE 1
        db == IF qb > 1 THEN qb ELSE 1
    IN  ca * db > cb * da

\* detect_question_matches: the 0-based indices of the questions sharing a
\* word with the answer, by falling confidence, equal confidences in list order
detect_question_matches(user_answer, questions) ==
    LET hit == {i \in 1..Len(questions) : CommonWords(user_answer, questions, i) # {}}
        rank(i) == Cardinality({j \in hit :
                       \/ MoreConfident(user_answer, questions, j, i)
                       \/ (~MoreConfident(user_answer, questions, i, j) /\ j < i)})
    IN  [k \in 1..Cardinality(hit) |-> (CHOOSE i \in hit : rank(i) = k - 1) - 1]

\* detect_question_matches on the texts and question lists of the model, as a table
QuestionMatches ==
    [t \in UserTexts |->
        [n \in 0..MaxQuestions |-> detect_question_matches(t, QuestionList(n))]]

\* next((ans for ans in updated_answers if ans), None), <<>> standing for None
FirstTruthy(updated_answers) ==
    LET ok == {i \in 1..Len(updated_answers) : Truthy(updated_answers[i])}
    IN  IF ok = {} THEN <<>>
        ELSE updated_answers[CHOOSE i \in ok : \A j \in ok : i <= j]

\* the merge placing every delivered answer, whatever question_matches names
MergeIgnoringMatches(answers, question_matches, updated_answers) ==
    [i \in 1..Len(answers) |->
        IF i <= Len(updated_answers) /\ Truthy(updated_answers[i])
        THEN updated_answers[i]
        ELSE answers[i]]

\* lines 408-420: both question_matches and updated_answers are given
MergeMatched(answers, question_matches, updated_answers) ==
    [i \in 1..Len(answers) |->
        IF /\ (i - 1) \in question_matches
           /\ (i - 1) < Len(updated_answers)
           /\ Truthy(updated_answers[i])
        THEN updated_answers[i]
        ELSE answers[i]]

\* lines 424-427: the loop over the slots when only updated_answers is given
MergeUnmatched(answers, updated_answers) ==
    [i \in 1..Len(answers) |->
        IF /\ i <= Len(updated_answers)
           /\ Truthy(updated_answers[i])
           /\ (~Truthy(answers[i]) \/ Len(Strip(answers[i])) < MIN_ANSWER_LEN)
        THEN updated_answers[i]
        ELSE answers[i]]

\* lines 428-435: the else of the for loop, which has no break and so always runs
AutoMatch(answers, updated_answers, user_text, recommended_questions) ==
    LET matches == IF /\ user_text \in UserTexts
                      /\ Len(recommended_questions) <= MaxQuestions
                      /\ recommended_questions = QuestionList(Len(recommended_questions))
                   THEN QuestionMatches[user_text][Len(recommended_questions)]
                   ELSE detect_question_matches(user_text, recommended_questions)
    IN  IF Len(matches) > 0 /\ Len(updated_answers) > 0
        THEN LET best_match_idx == matches[1]
                 new_answer == FirstTruthy(updated_answers)
             IN  IF Truthy(new_answer) /\ best_match_idx < Len(answers)
                 THEN [answers EXCEPT ![best_match_idx + 1] = new_answer]
                 ELSE answers
        ELSE answers

\* lines 404-435: Answer Reconciliation of one decision
reconcile_answers(st, d, user_text, recommended_questions) ==
    IF st.current_section # NoneVal /\ (d.has_question_matches \/ d.has_updated_answers)
    THEN LET cs == st.current_section
             st1 == IF cs \notin DOMAIN st.recommended_answers
                    THEN [st EXCEPT !.recommended_answers =
                             Put(@, cs, EmptyAnswers(Len(recommended_questions)))]
                    ELSE st
             answers == st1.recommended_answers[cs]
         IN  IF d.has_question_matches /\ d.has_updated_answers
             THEN [st1 EXCEPT !.recommended_answers[cs] =
                      MergeMatched(answers, d.question_matches, d.updated_answers)]
             ELSE IF d.has_updated_answers
             THEN [st1 EXCEPT !.recommended_answers[cs] =
                      AutoMatch(MergeUnmatched(answers, d.updated_answers),
                                d.updated_answers, user_text, recommended_questions)]
             ELSE st1
    ELSE st

\* ------------------------------------------------------------- CV summary

OFFLINE_NEGATIONS ==
    {<<"n","o"," ">>,
     <<"d","o","n","'","t">>,
     <<"h","a","v","e","n","'","t">>,
     <<"n","e","v","e","r">>,
     <<"n","o","t"," ">>,
     <<"l","a","c","k">>,
     <<"n","o"," ","e","x","p","e","r","i","e","n","c","e">>,
     <<"n","o","t"," ","f","a","m","i","l","i","a","r">>,
     <<"d","o","n","t"," ","h","a","v","e">>,
     <<"d","o"," ","n","o","t"," ","h","a","v","e">>,
     <<"u","n","f","a","m","i","l","i","a","r">>,
     <<"m","i","s","s","i","n","g">>,
     <<"l","i","m","i","t","e","d"," ","e","x","p","e","r","i","e","n","c","e">>}

FALLBACK_NEGATIONS ==
    {<<"n","o"," ">>,
     <<"d","o","n","'","t">>,
     <<"h","a","v","e","n","'","t">>,
     <<"n","e","v","e","r">>,
     <<"n","o","t"," ">>,
     <<"l","a","c","k">>,
     <<"n","o"," ","e","x","p","e","r","i","e","n","c","e">>,
     <<"n","o","t"," ","f","a","m","i","l","i","a","r">>,
     <<"u","n","f","a","m","i","l","i","a","r">>}

BULLET_MAX == 100

\* the bullet with the whole answer
bullet_untruncated(answer, negations) ==
    (IF \E neg \in negations : Contains(Lower(answer), neg) THEN <<"-">> ELSE <<"+">>)
    \o answer

\* f"-{answer[:100]}" or f"+{answer[:100]}"
Bullet(answer, negations) ==
    (IF \E neg \in negations : Contains(Lower(answer), neg) THEN <<"-">> ELSE <<"+">>)
    \o Take(answer, BULLET_MAX)

RECURSIVE JoinLines(_)
\* "\n".join(points)
JoinLines(points) ==
    IF Len(points) = 0 THEN <<>>
    ELSE IF Len(points) = 1 THEN points[1]
    ELSE points[1] \o <<"\n">> \o JoinLines(Tail(points))

\* the section_points text a well-formed summary response carries
LLM_SECTION_POINTS == <<"+","p">>

\* what the completion service does with the request of the aggregator
SummaryResponses == {"error", "section_points", "malformed"}

\* the aggregator giving up on a response whose object does not decode
summary_lost_on_bad_json(st, off, section_name, recommended_questions, recommended_answers, cvresp) ==
    LET n == IF Len(recommended_questions) < Len(recommended_answers)
             THEN Len(recommended_questions) ELSE Len(recommended_answers)
        stripped == [i \in 1..n |-> Strip(recommended_answers[i])]
        qa_pairs == SelectSeq(stripped, Truthy)
        points(negations) == JoinLines([i \in 1..Len(qa_pairs) |-> Bullet(qa_pairs[i], negations)])
    IN  IF Len(qa_pairs) = 0
        THEN [summary |-> st.cv_summary, calls |-> 0]
        ELSE IF off
        THEN [summary |-> Put(st.cv_summary, section_name, points(OFFLINE_NEGATIONS)), calls |-> 0]
        ELSE IF cvresp \in {"error", "undecodable"}
        THEN [summary |-> st.cv_summary, calls |-> 1]
        ELSE IF cvresp = "section_points"
        THEN [summary |-> Put(st.cv_summary, section_name, LLM_SECTION_POINTS), calls |-> 1]
        ELSE [summary |-> Put(st.cv_summary, section_name, points(FALLBACK_NEGATIONS)), calls |-> 1]

\* update_cv_summary: the new summary and the completion calls made
update_cv_summary(st, off, section_name, recommended_questions, recommended_answers, cvresp) ==
    LET n == IF Len(recommended_questions) < Len(recommended_answers)
             THEN Len(recommended_questions) ELSE Len(recommended_answers)
        stripped == [i \in 1..n |-> Strip(recommended_answers[i])]
        qa_pairs == SelectSeq(stripped, Truthy)
        points(negations) == JoinLines([i \in 1..Len(qa_pairs) |-> Bullet(qa_pairs[i], negations)])
    IN  IF Len(qa_pairs) = 0
        THEN [summary |-> st.cv_summary, calls |-> 0]
        ELSE IF off
        THEN [summary |-> Put(st.cv_summary, section_name, points(OFFLINE_NEGATIONS)), calls |-> 0]
        ELSE IF cvresp = "error"
        THEN [summary |-> st.cv_summary, calls |-> 1]
        ELSE IF cvresp = "section_points"
        THEN [summary |-> Put(st.cv_summary, section_name, LLM_SECTION_POINTS), calls |-> 1]
        ELSE [summary |-> Put(st.cv_summary, section_name, points(FALLBACK_NEGATIONS)), calls |-> 1]

\* ------------------------------------------------------------------ apply

DEFAULT_SCORE == 70

OFFLINE_SCORE == 75

\* alignment scores a re-analysis response carries besides the default one
AnalysisScores == {150}

\* a re-analysis response that parsed: the keys it has and their values
AnalysisResult(has_score, score, has_questions, questions) ==
    [kind |-> "result", has_score |-> has_score, score |-> score,
     has_questions |-> has_questions, questions |-> questions]

\* what the completion service does with the re-analysis request: the call
\* raises, or the response yields an object (the empty one when no JSON is in it)
AnalysisResponses ==
    {[kind |-> "error", has_score |-> FALSE, score |-> 0, has_questions |-> FALSE, questions |-> <<>>],
     AnalysisResult(FALSE, 0, FALSE, <<>>)}
    \cup {AnalysisResult(TRUE, sc, TRUE, QuestionList(n)) :
            sc \in AnalysisScores, n \in 0..MaxQuestions}

\* one entry of section_objects
SectionAnalysis(score, missing, questions, updated) ==
    [alignment_score |-> score, missing_requirements |-> missing,
     recommended_questions |-> questions, last_updated |-> updated]

\* apply_section_changes without the reset of the answers to the new questions
apply_without_fresh_answers(x, section_name, updated_content, off, cvresp, anresp) ==
    LET st == x.state
        st1 == [st EXCEPT !.resume_sections.items = Put(@, section_name, updated_content)]
        section_questions == IF section_name \in DOMAIN st.section_objects
                             THEN st.section_objects[section_name].recommended_questions
                             ELSE <<>>
        section_answers == IF section_name \in DOMAIN st.recommended_answers
                           THEN st.recommended_answers[section_name]
                           ELSE <<>>
        summarise == Len(section_questions) > 0 /\ Len(section_answers) > 0
        cv == update_cv_summary(st1, off, section_name, section_questions, section_answers, cvresp)
        st2 == IF summarise THEN [st1 EXCEPT !.cv_summary = cv.summary] ELSE st1
        calls == IF summarise THEN cv.calls ELSE 0
        st3 == [st2 EXCEPT !.recommended_answers = Put(@, section_name, <<>>)]
        example_question == <<"C","a","n"," ","y","o","u"," ","a","d","d"," ","m","o","r","e"," ","s","p","e","c","i","f","i","c"," ","e","x","a","m","p","l","e","s"," ","t","o"," ","y","o","u","r"," ">> \o NameText(section_name) \o <<"?">>
        continue_question == <<"L","e","t","'","s"," ","c","o","n","t","i","n","u","e"," ","i","m","p","r","o","v","i","n","g"," ","y","o","u","r"," ">> \o NameText(section_name) \o <<"."," ","W","h","a","t"," ","s","p","e","c","i","f","i","c"," ","d","e","t","a","i","l","s"," ","c","a","n"," ","y","o","u"," ","a","d","d","?">>
    IN  IF st.resume_sections.none
        THEN [x |-> [x EXCEPT !.raised = TRUE],
              result |-> [alignment_score |-> 0, recommended_questions |-> <<>>]]
        ELSE IF off
        THEN [x |-> [x EXCEPT !.state = st3, !.llm_calls = @ + calls],
              result |-> [alignment_score |-> OFFLINE_SCORE,
                          recommended_questions |-> <<example_question>>]]
        ELSE IF anresp.kind = "error"
        THEN [x |-> [x EXCEPT !.state = st3, !.llm_calls = @ + calls + 1],
              result |-> [alignment_score |-> DEFAULT_SCORE,
                          recommended_questions |-> <<continue_question>>]]
        ELSE LET score == IF anresp.has_score THEN anresp.score ELSE DEFAULT_SCORE
                 questions == IF anresp.has_questions THEN anresp.questions ELSE <<>>
                 old == IF section_name \in DOMAIN st3.section_objects
                        THEN st3.section_objects[section_name]
                        ELSE SectionAnalysis(0, <<>>, <<>>, NoneVal)
                 st4 == [st3 EXCEPT !.section_objects = Put(@, section_name,
                            [old EXCEPT !.alignment_score = score,
                                        !.missing_requirements = <<>>,
                                        !.recommended_questions = questions,
                                        !.last_updated = "just_now"])]
                 st5 == st4
             IN  [x |-> [x EXCEPT !.state = st5, !.llm_calls = @ + calls + 1],
                  result |-> [alignment_score |-> score, recommended_questions |-> questions]]

\* apply_section_changes: the execution after it and the analysis it returns
apply_section_changes(x, section_name, updated_content, off, cvresp, anresp) ==
    LET st == x.state
        st1 == [st EXCEPT !.resume_sections.items = Put(@, section_name, updated_content)]
        section_questions == IF section_name \in DOMAIN st.section_objects
                             THEN st.section_objects[section_name].recommended_questions
                             ELSE <<>>
        section_answers == IF section_name \in DOMAIN st.recommended_answers
                           THEN st.recommended_answers[section_name]
                           ELSE <<>>
        summarise == Len(section_questions) > 0 /\ Len(section_answers) > 0
        cv == update_cv_summary(st1, off, section_name, section_questions, section_answers, cvresp)
        st2 == IF summarise THEN [st1 EXCEPT !.cv_summary = cv.summary] ELSE st1
        calls == IF summarise THEN cv.calls ELSE 0
        st3 == [st2 EXCEPT !.recommended_answers = Put(@, section_name, <<>>)]
        example_question == <<"C","a","n"," ","y","o","u"," ","a","d","d"," ","m","o","r","e"," ","s","p","e","c","i","f","i","c"," ","e","x","a","m","p","l","e","s"," ","t","o"," ","y","o","u","r"," ">> \o NameText(section_name) \o <<"?">>
        continue_question == <<"L","e","t","'","s"," ","c","o","n","t","i","n","u","e"," ","i","m","p","r","o","v","i","n","g"," ","y","o","u","r"," ">> \o NameText(section_name) \o <<"."," ","W","h","a","t"," ","s","p","e","c","i","f","i","c"," ","d","e","t","a","i","l","s"," ","c","a","n"," ","y","o","u"," ","a","d","d","?">>
    IN  IF st.resume_sections.none
        THEN [x |-> [x EXCEPT !.raised = TRUE],
              result |-> [alignment_score |-> 0, recommended_questions |-> <<>>]]
        ELSE IF off
        THEN [x |-> [x EXCEPT !.state = st3, !.llm_calls = @ + calls],
              result |-> [alignment_score |-> OFFLINE_SCORE,
                          recommended_questions |-> <<example_question>>]]
        ELSE IF anresp.kind = "error"
        THEN [x |-> [x EXCEPT !.state = st3, !.llm_calls = @ + calls + 1],
              result |-> [alignment_score |-> DEFAULT_SCORE,
                          recommended_questions |-> <<continue_question>>]]
        ELSE LET score == IF anresp.has_score THEN anresp.score ELSE DEFAULT_SCORE
                 questions == IF anresp.has_questions THEN anresp.questions ELSE <<>>
                 old == IF section_name \in DOMAIN st3.section_objects
                        THEN st3.section_objects[section_name]
                        ELSE SectionAnalysis(0, <<>>, <<>>, NoneVal)
                 st4 == [st3 EXCEPT !.section_objects = Put(@, section_name,
                            [old EXCEPT !.alignment_score = score,
                                        !.missing_requirements = <<>>,
                                        !.recommended_questions = questions,
                                        !.last_updated = "just_now"])]
                 st5 == [st4 EXCEPT !.recommended_answers[section_name] =
                            EmptyAnswers(Len(questions))]
             IN  [x |-> [x EXCEPT !.state = st5, !.llm_calls = @ + calls + 1],
                  result |-> [alignment_score |-> score, recommended_questions |-> questions]]

\* --------------------------------------------------------------- the node

\* the entry of the node acknowledging an exit phrase without leaving the section
entry_staying_on_exit(section, st) ==
    LET x0 == Exec([st EXCEPT !.src_node = st.current_section])
        user_text == IF st.context.has_user THEN st.context.user_text ELSE <<>>
        direct == DirectRouting[user_text]
        cs == x0.state.current_section
        compact_sections == DOMAIN st.section_objects
        in_compact == cs # NoneVal /\ cs \in compact_sections
        recommended_questions ==
            IF in_compact THEN st.section_objects[cs].recommended_questions ELSE <<>>
        x1 == IF in_compact
              THEN [x0 EXCEPT !.state = safe_initialize_answers(@, cs, recommended_questions)]
              ELSE x0
        entry(x, done) ==
            [x |-> x, done |-> done, user_text |-> user_text,
             compact_sections |-> compact_sections,
             recommended_questions |-> recommended_questions]
    IN  IF Truthy(user_text) /\ direct # NoneVal /\ direct # section
        THEN entry(AppendMessage([x0 EXCEPT !.state.current_section = direct],
                                 RouteSignal("switch_signal", direct)), TRUE)
        ELSE IF Truthy(user_text) /\ ExitPhrase[user_text]
        THEN entry(AppendMessage(x0, TextMessage("leaving_section", <<>>)), TRUE)
        ELSE IF cs # NoneVal /\ (x1.state.resume_sections.none \/ x1.state.resume_schema.none)
        THEN entry([x1 EXCEPT !.raised = TRUE], TRUE)
        ELSE entry(x1, FALSE)

\* lines 290-352 of _node: what the node does before it asks for a decision.
\* done: the node has returned (direct switch, exit phrase) or an exception
\* has left it (`in` on a resume_sections or resume_schema that is None)
section_entry(section, st) ==
    LET x0 == Exec([st EXCEPT !.src_node = st.current_section])
        user_text == IF st.context.has_user THEN st.context.user_text ELSE <<>>
        direct == DirectRouting[user_text]
        cs == x0.state.current_section
        compact_sections == DOMAIN st.section_objects
        in_compact == cs # NoneVal /\ cs \in compact_sections
        recommended_questions ==
            IF in_compact THEN st.section_objects[cs].recommended_questions ELSE <<>>
        x1 == IF in_compact
              THEN [x0 EXCEPT !.state = safe_initialize_answers(@, cs, recommended_questions)]
              ELSE x0
        entry(x, done) ==
            [x |-> x, done |-> done, user_text |-> user_text,
             compact_sections |-> compact_sections,
             recommended_questions |-> recommended_questions]
    IN  IF Truthy(user_text) /\ direct # NoneVal /\ direct # section
        THEN entry(AppendMessage([x0 EXCEPT !.state.current_section = direct],
                                 RouteSignal("switch_signal", direct)), TRUE)
        ELSE IF Truthy(user_text) /\ ExitPhrase[user_text]
        THEN entry(AppendMessage([x0 EXCEPT !.state.current_section = NoneVal],
                                 TextMessage("leaving_section", <<>>)), TRUE)
        ELSE IF cs # NoneVal /\ (x1.state.resume_sections.none \/ x1.state.resume_schema.none)
        THEN entry([x1 EXCEPT !.raised = TRUE], TRUE)
        ELSE entry(x1, FALSE)

\* the decision handling applying also an empty updated_section_content
decide_applying_anything(e, off, resp, cvresp, anresp) ==
    LET cs == e.x.state.current_section
        unknown(route_to) ==
            Message("assistant", "unknown_section", <<>>, route_to, e.compact_sections, 0)
        g == call_llm_json_decision(off, resp)
        x2 == [e.x EXCEPT !.llm_calls = @ + g.calls]
        d == g.decision
    IN  IF g.raised = "ValueError"
        THEN AppendMessage(x2, TextMessage("please_rephrase", <<>>))
        ELSE IF g.raised # "no"
        THEN AppendMessage(x2, TextMessage("error_fallback", <<>>))
        ELSE IF d.action = "apply" /\ cs # NoneVal
        THEN IF TRUE
             THEN LET r == apply_section_changes(x2, cs, d.updated_section_content,
                                                 off, cvresp, anresp)
                  IN  IF r.x.raised
                      THEN AppendMessage([r.x EXCEPT !.raised = FALSE],
                                         TextMessage("error_fallback", <<>>))
                      ELSE AppendMessage(r.x,
                              Message("assistant",
                                      IF Len(r.result.recommended_questions) > 0
                                      THEN "applied_more_questions"
                                      ELSE "applied_complete",
                                      <<>>, cs, {}, r.result.alignment_score))
             ELSE AppendMessage(x2, TextMessage("apply_without_content", <<>>))
        ELSE
        LET x3 == [x2 EXCEPT !.state =
                      [reconcile_answers(@, d, e.user_text, e.recommended_questions)
                          EXCEPT !.routing_attempts = 0]]
        IN  IF cs # NoneVal
            THEN IF d.action = "switch" /\ d.route # NoneVal
                 THEN IF d.route \in e.compact_sections
                      THEN [x3 EXCEPT !.state.current_section = d.route]
                      ELSE AppendMessage(x3, unknown(d.route))
                 ELSE IF d.action = "exit"
                 THEN AppendMessage([x3 EXCEPT !.state.current_section = NoneVal],
                         IF Truthy(d.answer) THEN TextMessage("text", d.answer)
                         ELSE TextMessage("back_to_general_chat", <<>>))
                 ELSE IF Truthy(d.answer)
                 THEN AppendMessage(x3, TextMessage("text", d.answer))
                 ELSE x3
            ELSE IF d.action = "route" /\ d.route # NoneVal
                 THEN IF d.route \in e.compact_sections
                      THEN [x3 EXCEPT !.state.current_section = d.route]
                      ELSE AppendMessage(x3, unknown(d.route))
                 ELSE AppendMessage(x3,
                         IF Truthy(d.answer) THEN TextMessage("text", d.answer)
                         ELSE TextMessage("here_to_help", <<>>))

\* lines 372-505 of _node: the decision of the gateway and what follows from it
section_decide(e, off, resp, cvresp, anresp) ==
    LET cs == e.x.state.current_section
        unknown(route_to) ==
            Message("assistant", "unknown_section", <<>>, route_to, e.compact_sections, 0)
        g == call_llm_json_decision(off, resp)
        x2 == [e.x EXCEPT !.llm_calls = @ + g.calls]
        d == g.decision
    IN  IF g.raised = "ValueError"
        THEN AppendMessage(x2, TextMessage("please_rephrase", <<>>))
        ELSE IF g.raised # "no"
        THEN AppendMessage(x2, TextMessage("error_fallback", <<>>))
        ELSE IF d.action = "apply" /\ cs # NoneVal
        THEN IF Truthy(d.updated_section_content)
             THEN LET r == apply_section_changes(x2, cs, d.updated_section_content,
                                                 off, cvresp, anresp)
                  IN  IF r.x.raised
                      THEN AppendMessage([r.x EXCEPT !.raised = FALSE],
                                         TextMessage("error_fallback", <<>>))
                      ELSE AppendMessage(r.x,
                              Message("assistant",
                                      IF Len(r.result.recommended_questions) > 0
                                      THEN "applied_more_questions"
                                      ELSE "applied_complete",
                                      <<>>, cs, {}, r.result.alignment_score))
             ELSE AppendMessage(x2, TextMessage("apply_without_content", <<>>))
        ELSE
        LET x3 == [x2 EXCEPT !.state =
                      [reconcile_answers(@, d, e.user_text, e.recommended_questions)
                          EXCEPT !.routing_attempts = 0]]
        IN  IF cs # NoneVal
            THEN IF d.action = "switch" /\ d.route # NoneVal
                 THEN IF d.route \in e.compact_sections
                      THEN [x3 EXCEPT !.state.current_section = d.route]
                      ELSE AppendMessage(x3, unknown(d.route))
                 ELSE IF d.action = "exit"
                 THEN AppendMessage([x3 EXCEPT !.state.current_section = NoneVal],
                         IF Truthy(d.answer) THEN TextMessage("text", d.answer)
                         ELSE TextMessage("back_to_general_chat", <<>>))
                 ELSE IF Truthy(d.answer)
                 THEN AppendMessage(x3, TextMessage("text", d.answer))
                 ELSE x3
            ELSE IF d.action = "route" /\ d.route # NoneVal
                 THEN IF d.route \in e.compact_sections
                      THEN [x3 EXCEPT !.state.current_section = d.route]
                      ELSE AppendMessage(x3, unknown(d.route))
                 ELSE AppendMessage(x3,
                         IF Truthy(d.answer) THEN TextMessage("text", d.answer)
                         ELSE TextMessage("here_to_help", <<>>))

\* create_section_node(section)._node
section_node(section, st, off, resp, cvresp, anresp) ==
    LET e == section_entry(section, st)
    IN  IF e.done THEN e.x ELSE section_decide(e, off, resp, cvresp, anresp)

\* ---------------------------------------------------------- between turns

\* clone_state: carries the conversation fields, resets the others to the
\* defaults of a fresh ResumeBuilderState
clone_state(old_state) ==
    [jd_summary |-> old_state.jd_summary,
     resume_sections |-> old_state.resume_sections,
     section_objects |-> old_state.section_objects,
     current_section |-> old_state.current_section,
     src_node |-> NoneVal,
     recommended_answers |-> old_state.recommended_answers,
     routing_attempts |-> 0,
     resume_schema |-> [none |-> TRUE, keys |-> {}],
     cv_summary |-> old_state.cv_summary,
     context |-> old_state.context]

\* to_state_dict: the allowed keys, src_node among them, as they are
to_state_dict(state_obj) ==
    [jd_summary |-> state_obj.jd_summary,
     resume_sections |-> state_obj.resume_sections,
     section_objects |-> state_obj.section_objects,
     current_section |-> state_obj.current_section,
     src_node |-> state_obj.src_node,
     recommended_answers |-> state_obj.recommended_answers,
     routing_attempts |-> state_obj.routing_attempts,
     resume_schema |-> state_obj.resume_schema,
     cv_summary |-> state_obj.cv_summary,
     context |-> state_obj.context]

\* ------------------------------------------------------------------ state

VARIABLES
    state,      \* the ResumeBuilderState of the conversation
    offline,    \* OFFLINE_MODE of the process
    ui,         \* "graph": the runners of graph_builder.py; "api": api_gradio_ui.py
    pc,         \* the node the graph runs next, END, or how the turn broke off
    last,       \* the latest node execution
    turn,       \* what has happened in the turn so far
    probe       \* the state before a probed node execution and the decision it got

vars == <<state, offline, ui, pc, last, turn, probe>>

JD_SUMMARY == <<"j","d">>

\* the key sets of section_objects in initial_state.json
InitialSectionKeys == {{"skills"}, {"skills", "hobbies"}}

\* the state main() builds from initial_state.json
InitialState(keys, schema_none, sections_none) ==
    [jd_summary |-> JD_SUMMARY,
     resume_sections |-> [none |-> sections_none,
                          items |-> IF sections_none THEN EmptyMap
                                    ELSE [s \in {"skills"} |-> <<"o","l","d">>]],
     section_objects |-> [s \in keys |->
                            SectionAnalysis(60, << <<"s","q","l">> >>,
                                            QuestionList(MaxQuestions), NoneVal)],
     current_section |-> NoneVal,
     src_node |-> NoneVal,
     recommended_answers |-> EmptyMap,
     routing_attempts |-> 0,
     resume_schema |-> [none |-> schema_none,
                        keys |-> IF schema_none THEN {} ELSE {"skills", "education"}],
     cv_summary |-> EmptyMap,
     context |-> [has_user |-> FALSE, user_text |-> <<>>, last_role |-> "system"]]

NoExecution == [node |-> NoneVal, out |-> <<>>, llm_calls |-> 0, label |-> NoneVal]

NewTurn(st) == [ran |-> {}, replied |-> FALSE, start_section |-> st.current_section]

NoProbe == [on |-> FALSE]

\* the first turn: the graph runners send a system message, the API client a
\* user message, both with the content SESSION_START
Init ==
    /\ offline \in BOOLEAN
    /\ ui \in {"graph", "api"}
    /\ \E keys \in InitialSectionKeys, schema_none \in BOOLEAN, sections_none \in BOOLEAN :
          state = [InitialState(keys, schema_none, sections_none) EXCEPT
                      !.context = IF ui = "api"
                                  THEN [has_user |-> TRUE, user_text |-> SESSION_START,
                                        last_role |-> "user"]
                                  ELSE @]
    /\ pc = AnalyzeUserQuery
    /\ last = NoExecution
    /\ turn = NewTurn(state)
    /\ probe = NoProbe

\* where the graph goes after a node whose routing map has the labels `map`
Dispatch(x, map) ==
    LET label == route_to_section(x.state)
    IN  IF x.raised THEN "crashed"
        ELSE IF label \notin map THEN "unmapped"
        ELSE IF label = END THEN END
        ELSE IF label = "general_chat" THEN AnalyzeUserQuery
        ELSE label

\* the bookkeeping of one node execution
Record(node, x) ==
    /\ state' = x.state
    /\ last' = [node |-> node, out |-> x.out, llm_calls |-> x.llm_calls,
                label |-> route_to_section(x.state)]
    /\ turn' = [turn EXCEPT
                   !.ran = @ \cup {node},
                   !.replied = @ \/ \E i \in 1..Len(x.out) : ~IsRouteSignal(x.out[i])]
    /\ UNCHANGED <<offline, ui>>

\* the response of a completion service that is not asked
NoResponse == [kind |-> "transport_error", decision |-> GatewayErrorDecision]

\* the decisions the router tells apart
RouterResponses ==
    {r \in GatewayResponses :
        ~r.decision.has_question_matches /\ ~r.decision.has_updated_answers}

\* the graph runs the node AnalyzeUserQuery
RunRouter ==
    /\ pc = AnalyzeUserQuery
    /\ \E resp \in IF state.current_section # NoneVal THEN {NoResponse} ELSE RouterResponses :
       \E fb \in IF call_llm_json_decision(offline, resp).raised # "no"
                 THEN FallbackResponses ELSE {"error"} :
       \E x \in {general_chat_and_section_routing(state, offline, resp, fb)} :
              /\ Record(AnalyzeUserQuery, x)
              /\ pc' = Dispatch(x, routing_map)
              /\ UNCHANGED probe

\* the decisions a section node tells apart: it handles route and answer as stay
SectionResponses ==
    {r \in GatewayResponses :
        r.kind = "decision" => r.decision.action \notin {"route", "answer"}}

IsApply(resp) ==
    /\ resp.kind = "decision"
    /\ resp.decision.action = "apply"
    /\ Truthy(resp.decision.updated_section_content)

\* the graph runs the node of a section
RunSection ==
    /\ pc \in SectionNameSet
    /\ \E e \in {section_entry(pc, state)} :
           \E resp \in IF e.done THEN {NoResponse} ELSE SectionResponses :
           \E cvresp \in IF IsApply(resp) THEN SummaryResponses ELSE {"error"} :
           \E anresp \in IF IsApply(resp) THEN AnalysisResponses
                         ELSE {AnalysisResult(FALSE, 0, FALSE, <<>>)} :
           \E x \in {IF e.done THEN e.x
                      ELSE section_decide(e, offline, resp, cvresp, anresp)} :
                  /\ Record(pc, x)
                  /\ pc' = Dispatch(x, section_routing_map)
                  /\ UNCHANGED probe

\* the next message of the user: the state of the finished turn is carried
\* over by clone_state (graph runners) or as the state dictionary (API client)
NextTurn ==
    /\ pc = END
    /\ \E u \in Utterances :
          state' = [(IF ui = "graph" THEN clone_state(state) ELSE to_state_dict(state))
                       EXCEPT !.context = [has_user |-> TRUE, user_text |-> u,
                                           last_role |-> "user"]]
    /\ pc' = AnalyzeUserQuery
    /\ last' = NoExecution
    /\ turn' = NewTurn(state')
    /\ UNCHANGED <<offline, ui, probe>>

Next == RunRouter \/ RunSection \/ NextTurn

Spec == Init /\ [][Next]_vars

\* a turn, once started, is run on by the graph; the user need not come back
LiveSpec == Spec /\ WF_vars(RunRouter) /\ WF_vars(RunSection)

\* ------------------------------------------- one section node execution
\* The node of a section run once, from every stored answer array and every
\* question list up to the bounds, on every decision payload up to the bounds.

\* question_matches of a probed decision: 0-based, one index beyond every array
ProbeMatches == SUBSET (0..MaxQuestions)

\* updated_answers of a probed decision
ProbeUpdates == SeqsBetween(AnswerTexts, 0, MaxQuestions)

ProbePayloads ==
    {<<hq, qm, hu, ua>> \in BOOLEAN \X ProbeMatches \X BOOLEAN \X ProbeUpdates :
        (~hq => qm = {}) /\ (~hu => ua = <<>>)}

ProbeDecisions ==
    {Decision("stay", NoneVal, <<"o","k">>, <<>>, q[1], q[2], q[3], q[4]) : q \in ProbePayloads}
    \cup {Decision(a, "education", <<"o","k">>, <<"n","e","w">>, hq, {0}, TRUE, << <<"y">> >>) :
             a \in {"apply", "switch", "exit"}, hq \in BOOLEAN}
    \cup {Decision("switch", r, <<"o","k">>, <<>>, FALSE, {}, FALSE, <<>>) : r \in Routes}
    \cup {Decision("apply", NoneVal, <<"o","k">>, c, FALSE, {}, FALSE, <<>>) :
             c \in SectionContents}

\* what the completion service does with the request of a probed section
\* node: it answers with a decision, the call fails, or it answers with a raw
\* text that goes through the parser
ProbeResponses ==
    {[kind |-> "decision", decision |-> d] : d \in ProbeDecisions}
    \cup {[kind |-> "transport_error", decision |-> GatewayErrorDecision]}
    \cup {[kind |-> "text", text |-> t, decision |-> GatewayErrorDecision] : t \in RawTexts}

\* the answers stored for the section when the node is entered: none, or an
\* array at most one shorter or longer than the question list
ProbeStored(n) ==
    {[none |-> TRUE, answers |-> <<>>]}
    \cup {[none |-> FALSE, answers |-> a] : a \in SeqsBetween(ExistingTexts, n - 1, n + 1)}

ProbeInit ==
    /\ offline = FALSE
    /\ ui = "graph"
    /\ \E n \in 0..MaxQuestions, u \in ProbeUtterances, keys \in InitialSectionKeys :
       \E stored \in IF keys = {"skills"} THEN ProbeStored(n)
                     ELSE {[none |-> TRUE, answers |-> <<>>]} :
          state = [InitialState(keys, FALSE, FALSE) EXCEPT
                      !.current_section = "skills",
                      !.section_objects["skills"].recommended_questions = QuestionList(n),
                      !.recommended_answers = IF stored.none THEN EmptyMap
                                              ELSE Put(EmptyMap, "skills", stored.answers),
                      !.context = [has_user |-> TRUE, user_text |-> u, last_role |-> "user"]]
    /\ pc = "skills"
    /\ last = NoExecution
    /\ turn = NewTurn(state)
    /\ probe = NoProbe

\* the node of the section runs on a decision, which is kept with the state
\* the node started from
ProbeSection ==
    /\ pc \in SectionNameSet
    /\ ~probe.on
    /\ \E e \in {section_entry(pc, state)} :
           \E resp \in IF e.done THEN {NoResponse} ELSE ProbeResponses :
           \E d \in {IF e.done THEN PlainDecision(NoneVal, NoneVal, <<>>)
                      ELSE call_llm_json_decision(offline, resp).decision} :
           \E cvresp \in IF d.action = "apply" THEN SummaryResponses ELSE {"error"} :
           \E anresp \in IF d.action = "apply" THEN AnalysisResponses
                         ELSE {AnalysisResult(FALSE, 0, FALSE, <<>>)} :
           \E x \in {IF e.done THEN e.x
                      ELSE section_decide(e, offline, resp, cvresp, anresp)} :
                  /\ Record(pc, x)
                  /\ pc' = Dispatch(x, section_routing_map)
                  /\ probe' = [on |-> TRUE, before |-> state, decision |-> d,
                               response |-> resp, decided |-> ~e.done,
                               questions |-> e.recommended_questions,
                               user_text |-> e.user_text,
                               summary |-> cvresp, analysis |-> anresp]

ProbeNext == ProbeSection

ProbeSpec == ProbeInit /\ [][ProbeNext]_vars

\* ------------------------------------------- one run of the aggregator
\* update_cv_summary run once on the questions and answers of a section, in
\* offline mode and on every kind of response of the completion service.

\* an answer of 105 characters whose negation lies beyond the first 100
LONG_ANSWER == [i \in 1..99 |-> "x"] \o <<" ","n","e","v","e","r">>

\* answers stored for a section when its changes are applied
SummaryAnswers ==
    {<<>>,
     <<" "," ">>,
     <<"I"," ","h","a","v","e"," ","n","o"," ","e","x","p","e","r","i","e","n","c","e"," ","w","i","t","h"," ","J","a","v","a">>,
     <<"I"," ","c","o","m","p","l","e","t","e","d"," ","A","W","S"," ","c","e","r","t","i","f","i","c","a","t","i","o","n">>,
     <<"m","i","s","s","i","n","g"," ","a","w","s">>,
     <<" ","N","E","V","E","R"," ","u","s","e","d"," ","i","t"," ">>,
     LONG_ANSWER}

\* an object with section_points
JSON_POINTS == <<"{","\"","s","e","c","t","i","o","n","_","p","o","i","n","t","s","\"",":","\"","+","p","\"","}">>

\* the response to the request of the aggregator: the call raises, or it
\* returns a text: empty, prose, braces that are no JSON, objects without
\* section_points, an object with section_points alone and inside prose
SummaryProbeResponses ==
    {[kind |-> "transport_error", text |-> <<>>]}
    \cup {[kind |-> "text", text |-> t] :
            t \in {<<>>,
                   <<" ","h","i"," ">>,
                   <<"{","s","t","a","y","}">>,
                   JSON_EMPTY,
                   JSON_STAY,
                   JSON_POINTS,
                   <<"o","k"," ">> \o JSON_POINTS}}

\* lines 92-110 of update_cv_summary: what the aggregator makes of the response
SummaryOutcome(resp) ==
    LET json_text == json_match(resp.text)
    IN  IF resp.kind = "transport_error" THEN "error"
        ELSE IF json_text = <<>> THEN "no_json"
        ELSE IF json_text = JSON_POINTS THEN "section_points"
        ELSE IF \E o \in JsonObjects : o.text = json_text THEN "no_section_points"
        ELSE "undecodable"

\* cv_summary before the run: empty, or with a text for two sections
PriorSummaries ==
    {EmptyMap,
     [s \in {"skills", "education"} |->
        IF s = "skills" THEN <<"+","o","l","d">> ELSE <<"+","b","s","c">>]}

SummaryInit ==
    /\ offline \in BOOLEAN
    /\ ui = "graph"
    /\ \E n \in 0..MaxQuestions, prior \in PriorSummaries :
       \E answers \in [1..n -> SummaryAnswers] :
          state = [InitialState({"skills"}, FALSE, FALSE) EXCEPT
                      !.current_section = "skills",
                      !.section_objects["skills"].recommended_questions = QuestionList(n),
                      !.recommended_answers = Put(EmptyMap, "skills", answers),
                      !.cv_summary = prior]
    /\ pc = "skills"
    /\ last = NoExecution
    /\ turn = NewTurn(state)
    /\ probe = NoProbe

\* the aggregator runs as apply_section_changes calls it (lines 149-157)
ProbeSummary ==
    /\ pc \in SectionNameSet
    /\ ~probe.on
    /\ \E resp \in SummaryProbeResponses :
       \E cvresp \in {SummaryOutcome(resp)} :
       \E r \in {update_cv_summary(state, offline, pc,
                                    state.section_objects[pc].recommended_questions,
                                    state.recommended_answers[pc], cvresp)} :
          /\ state' = [state EXCEPT !.cv_summary = r.summary]
          /\ last' = [node |-> pc, out |-> <<>>, llm_calls |-> r.calls, label |-> END]
          /\ pc' = END
          /\ probe' = [on |-> TRUE, before |-> state, section |-> pc,
                       raw |-> resp, response |-> cvresp]
          /\ UNCHANGED <<offline, ui, turn>>

SummaryNext == ProbeSummary

SummarySpec == SummaryInit /\ [][SummaryNext]_vars

\* ------------------------------------------- one router execution
\* The router run once in general mode on every response of the model: raw
\* texts that go through the parser, a failing call, and parsed decisions.

RawResponses ==
    {[kind |-> "text", text |-> t, decision |-> GatewayErrorDecision] : t \in RawTexts}

RouterProbeResponses ==
    RawResponses
    \cup {NoResponse}
    \cup {[kind |-> "decision", decision |-> PlainDecision(a, r, t)] :
             a \in {"route", "answer", "stay"}, r \in Routes, t \in DecisionAnswers}

\* the parser was not called
NoParse == [raised |-> "not called", decision |-> PlainDecision(NoneVal, NoneVal, <<>>)]

\* the router runs on a response, which is kept with the state it started
\* from, what the parser returned and what the gateway returned
ProbeRouter ==
    /\ pc = AnalyzeUserQuery
    /\ ~probe.on
    /\ \E resp \in RouterProbeResponses, fb \in FallbackResponses :
       \E x \in {general_chat_and_section_routing(state, offline, resp, fb)} :
              /\ Record(AnalyzeUserQuery, x)
              /\ pc' = Dispatch(x, routing_map)
              /\ probe' = [on |-> TRUE, before |-> state, response |-> resp,
                           fallback |-> fb,
                           parsed |-> IF ~offline /\ resp.kind = "text"
                                      THEN ParsedRaw[resp.text] ELSE NoParse,
                           gateway |-> call_llm_json_decision(offline, resp)]

RouterProbeNext == ProbeRouter

RouterProbeSpec == Init /\ [][RouterProbeNext]_vars

\* ------------------------------------------------------------------ claims

\* the sections that have both an answer array and an analysis
AnalysedWithAnswers == DOMAIN state.recommended_answers \cap DOMAIN state.section_objects

\* C1: at the end of every turn, each section that has both an answer array
\* and an analysis has as many answers as its analysis has recommended
\* questions -- also after an apply whose re-analysis failed.
C1_AnswersAlignedAtTurnEnd ==
    pc = END =>
        \A s \in AnalysedWithAnswers :
            Len(state.recommended_answers[s])
                = Len(state.section_objects[s].recommended_questions)

\* C2: current_section is null or one of SECTION_NAMES, whatever keys
\* section_objects has and whatever route a decision carries.
C2_CurrentSectionKnown ==
    state.current_section = NoneVal \/ state.current_section \in SectionNameSet

\* C3: the router, run while a section s is active, makes no call to the
\* completion service, leaves current_section = s and emits exactly the
\* routing signal {"route": s}.
C3_RouterRelaysActiveSection ==
    [][(pc = AnalyzeUserQuery /\ state.current_section # NoneVal) =>
          /\ last'.node = AnalyzeUserQuery
          /\ last'.llm_calls = 0
          /\ state'.current_section = state.current_section
          /\ last'.out = <<RouteSignal("route_signal", state.current_section)>>]_vars

\* the router has relayed an active section while the service was configured
C3_Witness ==
    /\ ~offline
    /\ last.node = AnalyzeUserQuery
    /\ last.llm_calls = 0
    /\ state.current_section \in SectionNameSet
    /\ last.out = <<RouteSignal("route_signal", state.current_section)>>

\* C4: a turn that starts with current_section = s, s one of SECTION_NAMES,
\* does not end before the node of s has run, whatever src_node the turn
\* inherited.
C4_ActiveSectionNodeRuns ==
    (pc = END /\ turn.start_section \in SectionNameSet)
        => turn.start_section \in turn.ran

\* C5: once a section node has run, src_node = current_section makes
\* route_to_section return END, so that no node follows in the turn.
C5_SelfRouteEndsTurn ==
    (last.node \in SectionNameSet /\ state.src_node = state.current_section
        /\ pc # "crashed")
        => (last.label = END /\ pc = END)

\* a section node has run and kept its section active
C5_Witness ==
    /\ last.node \in SectionNameSet
    /\ state.current_section = last.node
    /\ state.src_node = state.current_section
    /\ pc = END

\* the graph has stopped running nodes: END, an exception, or a label that
\* the routing map of the node does not have
TurnOver == pc \in {END, "crashed", "unmapped"}

\* C6: every turn is over after finitely many node executions, whatever
\* the decisions of the completion service are.
C6_EveryTurnEnds == []<>TurnOver

\* ---- claims about one execution of a section node (ProbeSpec)

\* the probed section
Probed == probe.before.current_section

\* the answers stored for the probed section before the node ran, none as <<>>
StoredBefore ==
    IF Probed \in DOMAIN probe.before.recommended_answers
    THEN probe.before.recommended_answers[Probed]
    ELSE <<>>

\* the stored answers fitted to the question list: the array reconciliation starts from
Fitted ==
    [i \in 1..Len(probe.questions) |->
        IF i <= Len(StoredBefore) THEN StoredBefore[i] ELSE <<>>]

\* the answers of the probed section after the node ran
StoredAfter == state.recommended_answers[Probed]

\* the array Answer Reconciliation computes for the probed decision from the
\* state the node holds when the decision arrives
Reconciled ==
    LET e == section_entry(Probed, probe.before)
    IN  reconcile_answers(e.x.state, probe.decision, e.user_text,
                          e.recommended_questions).recommended_answers[Probed]

\* the node gets as far as Answer Reconciliation: a direct switch, an exit
\* phrase and an apply return before it
Reconciles == probe.decided /\ probe.decision.action # "apply"

\* slot i (1-based) is named by question_matches and has a non-empty delivered answer
Matched(i) ==
    /\ (i - 1) \in probe.decision.question_matches
    /\ i <= Len(probe.decision.updated_answers)
    /\ probe.decision.updated_answers[i] # <<>>

\* the array has the delivered answers at the matched slots and is otherwise as fitted
MatchedOutcome(a) ==
    /\ Len(a) = Len(Fitted)
    /\ \A i \in 1..Len(Fitted) :
          a[i] = IF Matched(i) THEN probe.decision.updated_answers[i] ELSE Fitted[i]

Unmatched ==
    /\ probe.on
    /\ ~probe.decision.has_question_matches
    /\ probe.decision.has_updated_answers
    /\ Reconciles

\* C8: on a decision with updated_answers and no question_matches, a slot
\* whose answer has 5 or more characters (counted after trimming) keeps it.
C8_LongAnswersKept ==
    Unmatched =>
        \A i \in 1..Len(Fitted) :
            Len(Strip(Fitted[i])) >= MIN_ANSWER_LEN => StoredAfter[i] = Fitted[i]

\* C9: on a decision with updated_answers and no question_matches, every
\* slot that is empty or has fewer than 5 characters after trimming, and for
\* which a non-empty updated_answers[i] is delivered, holds updated_answers[i].
C9_ShortSlotsFilled ==
    Unmatched =>
        \A i \in 1..Len(Fitted) :
            (/\ Len(Strip(Fitted[i])) < MIN_ANSWER_LEN
             /\ i <= Len(probe.decision.updated_answers)
             /\ probe.decision.updated_answers[i] # <<>>)
                => StoredAfter[i] = probe.decision.updated_answers[i]

\* the node ran on a decision that delivers no answers and applies nothing,
\* for a section that had an answer array
OnlyResized ==
    /\ probe.on
    /\ ~probe.decision.has_question_matches
    /\ ~probe.decision.has_updated_answers
    /\ Reconciles
    /\ Probed \in DOMAIN probe.before.recommended_answers

\* C10: resizing the stored array against the question list gives exactly
\* len(questions) entries, the first min(len(stored), len(questions)) of them
\* the stored ones in place and the others the empty string; with equal
\* lengths the array is unchanged.
C10_ResizePreservesFront ==
    OnlyResized =>
        /\ Len(StoredAfter) = Len(probe.questions)
        /\ \A i \in 1..Len(StoredAfter) :
              StoredAfter[i] = IF i <= Len(StoredBefore) THEN StoredBefore[i] ELSE <<>>
        /\ Len(StoredBefore) = Len(probe.questions) => StoredAfter = StoredBefore

\* three stored answers against two questions: the first two have been kept
C10_Witness ==
    /\ OnlyResized
    /\ Len(probe.questions) = 2
    /\ Len(StoredBefore) = 3
    /\ StoredBefore[1] # <<>> /\ StoredBefore[2] # <<>> /\ StoredBefore[1] # StoredBefore[2]
    /\ StoredAfter = <<StoredBefore[1], StoredBefore[2]>>

\* the probed decision asks for a switch to a name outside SECTION_NAMES
UnknownSwitch ==
    /\ probe.on
    /\ probe.decision.action = "switch"
    /\ probe.decision.route # NoneVal
    /\ probe.decision.route \notin SectionNameSet

\* C11: a switch decision whose route is outside SECTION_NAMES leaves
\* current_section as it was and appends one assistant message that lists
\* the valid section names, whatever section_objects holds.
C11_UnknownSwitchRejected ==
    UnknownSwitch =>
        /\ state.current_section = Probed
        /\ Len(last.out) = 1
        /\ last.out[1].role = "assistant"
        /\ last.out[1].kind = "unknown_section"
        /\ last.out[1].names = SectionNameSet

\* ---- claims about the parser, the gateway and the router (RouterProbeSpec)

\* the parser ran on the raw text of the probed response
Parsed == probe.on /\ probe.parsed.raised # "not called"

RawText == probe.response.text

\* the text has no "{" with a "}" after it
NoObject(t) == ~\E i, j \in 1..Len(t) : i < j /\ t[i] = "{" /\ t[j] = "}"

\* the text is empty or consists of whitespace
Blank(t) == \A i \in 1..Len(t) : t[i] \in Whitespace

LocatedDecision(t) ==
    \E o \in JsonObjects : o.text = json_match(t) /\ o.has_action

\* C13: the parser raises exactly when the raw text is empty or blank, when
\* the located object is not valid JSON, or when the object has no action;
\* in every other case it returns a decision with a valid action.
C13_ParserFailsExactlyOnMalformed ==
    Parsed =>
        /\ probe.parsed.raised = "ValueError"
              <=> (Blank(RawText) \/ (~NoObject(RawText) /\ ~LocatedDecision(RawText)))
        /\ probe.parsed.raised # "ValueError"
              => (probe.parsed.raised = "no" /\ probe.parsed.decision.action \in VALID_ACTIONS)

\* the completion call of the probed router execution failed
CallFailed == probe.on /\ ~offline /\ probe.response.kind = "transport_error"

\* C14: when the completion call fails, the gateway returns the decision
\* {action: answer, route: null, answer: apology text} and raises nothing,
\* so that its caller replies with the apology.
C14_CallFailureGivesDefault ==
    CallFailed =>
        /\ probe.gateway.raised = "no"
        /\ probe.gateway.decision = PlainDecision("answer", NoneVal, GATEWAY_ERROR_ANSWER)
        /\ last.out = <<TextMessage("text", GATEWAY_ERROR_ANSWER)>>

\* the router has replied with the apology after a failed call
C14_Witness ==
    /\ CallFailed
    /\ last.node = AnalyzeUserQuery
    /\ last.llm_calls = 1
    /\ last.out = <<TextMessage("text", GATEWAY_ERROR_ANSWER)>>

\* C15: when the completion call succeeds and the parser fails on the
\* response, the gateway raises that failure to its caller and does not
\* return the default decision.
C15_ParserFailurePropagates ==
    (Parsed /\ probe.parsed.raised = "ValueError")
        => /\ probe.gateway.raised = "ValueError"
           /\ last.out # <<TextMessage("text", GATEWAY_ERROR_ANSWER)>>

\* C16: in offline mode the gateway makes no completion request and
\* returns the one fixed decision {action: answer, route: null, answer:
\* placeholder text}, whatever the state and the service would have said.
C16_OfflineFixedDecision ==
    (probe.on /\ offline) =>
        /\ probe.gateway.calls = 0
        /\ probe.gateway.raised = "no"
        /\ probe.gateway.decision = PlainDecision("answer", NoneVal, OFFLINE_ANSWER)
        /\ last.llm_calls = 0

\* the router has replied with the placeholder without any request, although
\* the service would have routed
C16_Witness ==
    /\ probe.on
    /\ offline
    /\ probe.response.kind = "decision"
    /\ probe.response.decision.action = "route"
    /\ last.llm_calls = 0
    /\ last.out = <<TextMessage("text", OFFLINE_ANSWER)>>

\* the kinds of reply the fallback completion call of the router produces
FallbackKinds == {"fallback_text", "fallback_no_response", "fallback_unavailable"}

\* C17: in general mode, when the completion service cannot be reached, the
\* router makes a second completion call and replies with its text, or with
\* the static apology when the second call fails as well; current_section
\* stays null.
C17_FallbackCallOnFailure ==
    (CallFailed /\ probe.before.current_section = NoneVal) =>
        /\ last.llm_calls = 2
        /\ Len(last.out) = 1
        /\ last.out[1].kind \in FallbackKinds
        /\ probe.fallback = "text" => last.out[1].kind = "fallback_text"
        /\ probe.fallback = "error" => last.out[1].kind = "fallback_unavailable"
        /\ state.current_section = NoneVal

\* the decision the router of the probed execution acted on
Decided == probe.gateway.decision

\* the router was probed online in general mode with a route decision
RouteDecided ==
    /\ probe.on
    /\ ~offline
    /\ probe.before.current_section = NoneVal
    /\ Decided.action = "route"

\* C18: in general mode a route decision whose route is one of the fixed
\* section names sets current_section to it; a route decision with any
\* other route leaves current_section null and is answered like an answer
\* decision, with the decision's answer text.
C18_RouteOutsideSetIsAnswer ==
    RouteDecided =>
        IF \E i \in 1..Len(SECTION_NAMES) : SECTION_NAMES[i] = Decided.route
        THEN state.current_section = Decided.route
        ELSE /\ state.current_section = NoneVal
             /\ Decided.answer # <<>> => last.out = <<TextMessage("text", Decided.answer)>>

\* the probed decision is an apply with content, and the re-analysis the
\* node asked for came back
Applied ==
    /\ probe.on
    /\ probe.decision.action = "apply"
    /\ probe.decision.updated_section_content # <<>>
    /\ probe.analysis.kind = "result"

\* the question list of the re-analysis response
FreshQuestions ==
    IF probe.analysis.has_questions THEN probe.analysis.questions ELSE <<>>

\* C19: after an apply decision with non-empty content whose re-analysis
\* succeeds, resume_sections has the content for the section, section_objects
\* has the fresh analysis, recommended_answers for the section is one empty
\* string per new question, and current_section is unchanged.
C19_ApplyReplacesAnalysis ==
    Applied =>
        /\ state.resume_sections.items[Probed] = probe.decision.updated_section_content
        /\ state.section_objects[Probed].recommended_questions = FreshQuestions
        /\ state.section_objects[Probed].alignment_score =
              (IF probe.analysis.has_score THEN probe.analysis.score ELSE DEFAULT_SCORE)
        /\ state.section_objects[Probed].last_updated = "just_now"
        /\ Len(StoredAfter) = Len(FreshQuestions)
        /\ \A i \in 1..Len(StoredAfter) : StoredAfter[i] = <<>>
        /\ state.current_section = Probed

\* an apply that replaced two questions with stored answers by one new
\* question with an empty answer
C19_Witness ==
    /\ Applied
    /\ Len(probe.questions) = 2
    /\ Len(StoredBefore) = 2
    /\ StoredBefore[1] # <<>>
    /\ Len(FreshQuestions) = 1
    /\ StoredAfter = << <<>> >>
    /\ state.resume_sections.items[Probed] # probe.before.resume_sections.items[Probed]

\* the probed decision is an apply without content
EmptyApply ==
    /\ probe.on
    /\ probe.decision.action = "apply"
    /\ probe.decision.updated_section_content = <<>>

\* C20: an apply decision with empty updated_section_content leaves
\* resume_sections, section_objects, cv_summary and current_section as they
\* were, makes no completion call besides the one for the decision, and
\* appends exactly one assistant message, which asks to confirm the changes.
C20_EmptyApplyChangesNothing ==
    EmptyApply =>
        /\ state.resume_sections = probe.before.resume_sections
        /\ state.section_objects = probe.before.section_objects
        /\ state.cv_summary = probe.before.cv_summary
        /\ state.current_section = Probed
        /\ last.llm_calls = 1
        /\ last.out = <<TextMessage("apply_without_content", <<>>)>>

\* an empty apply was refused although answers were stored for the section,
\* so that the aggregator would have had something to summarise
C20_Witness ==
    /\ EmptyApply
    /\ Len(probe.questions) > 0
    /\ \E i \in 1..Len(StoredBefore) : i <= Len(probe.questions) /\ StoredBefore[i] # <<>>
    /\ last.out = <<TextMessage("apply_without_content", <<>>)>>

\* the probed decision is an apply with content whose re-analysis call failed
ApplyFailed ==
    /\ probe.on
    /\ probe.decision.action = "apply"
    /\ probe.decision.updated_section_content # <<>>
    /\ probe.analysis.kind = "error"

GatewayFailed ==
    /\ probe.on
    /\ probe.decided
    /\ ~offline
    /\ \/ probe.response.kind = "transport_error"
       \/ /\ probe.response.kind = "text"
          /\ extract_and_validate_json(probe.response.text).raised # "no"

\* the kinds of message that apologise for a failure
ApologyKinds == {"please_rephrase", "error_fallback"}

\* C22: when the gateway of a section turn fails, or the response does not
\* parse into a decision, one apology message is appended and
\* current_section, resume_sections, section_objects and cv_summary stay
\* as they were.
C22_SectionFailureIsSafe ==
    GatewayFailed =>
        /\ Len(last.out) = 1
        /\ last.out[1].role = "assistant"
        /\ \/ last.out[1] = TextMessage("text", GATEWAY_ERROR_ANSWER)
           \/ last.out[1].kind \in ApologyKinds
        /\ state.current_section = Probed
        /\ state.resume_sections = probe.before.resume_sections
        /\ state.section_objects = probe.before.section_objects
        /\ state.cv_summary = probe.before.cv_summary

\* a section node with stored answers has apologised for an unparsable response
C22_Witness ==
    /\ GatewayFailed
    /\ probe.response.kind = "text"
    /\ Len(StoredBefore) > 0
    /\ last.node = Probed
    /\ Len(last.out) = 1
    /\ state.current_section = Probed

\* C23: every turn that has ended has appended at least one assistant
\* message that is not a bare routing signal, whatever decisions the
\* completion service returned in it.
C23_EveryTurnReplies ==
    (pc = END /\ turn.ran # {}) => turn.replied

\* the sections one of whose trigger patterns occurs in the lower-cased text
Triggered(text) ==
    {SECTION_NAMES[i] : i \in {j \in 1..Len(SECTION_NAMES) :
        \E p \in SECTION_ROUTE_PATTERNS(SECTION_NAMES[j]) : Contains(Lower(text), p)}}

\* Triggered on the texts of the model
TriggeredIn == [t \in UserTexts |-> Triggered(t)]

\* the utterance of the probed node has the trigger of a section other than
\* the node's own
OtherTriggered ==
    /\ probe.on
    /\ TriggeredIn[probe.user_text] \ {Probed} # {}

\* C24: when the utterance has a trigger of a section other than the node's
\* own, current_section becomes such a section and the node makes no
\* completion call, also when the utterance has a trigger of the node's own
\* section as well.
C24_OtherTriggerSwitches ==
    OtherTriggered =>
        /\ state.current_section \in TriggeredIn[probe.user_text] \ {Probed}
        /\ last.llm_calls = 0

\* the texts of the model with an exit phrase in them
WithExitPhrase ==
    {t \in UserTexts : \E kw \in EXIT_KEYWORDS : Contains(Lower(t), kw)}

\* the probed node handles an exit: the utterance has an exit phrase and no
\* trigger of another section, or the decision it got is an exit
ExitHandled ==
    /\ probe.on
    /\ \/ /\ probe.user_text \in WithExitPhrase
          /\ TriggeredIn[probe.user_text] \ {Probed} = {}
       \/ probe.decision.action = "exit"

\* the kinds of message that acknowledge an exit
ExitKinds == {"leaving_section", "back_to_general_chat"}

\* C25: a section node that handles an exit sets current_section to null,
\* appends exactly one message, the exit acknowledgement, and leaves
\* resume_sections, section_objects and cv_summary as they were.
C25_ExitLeavesSection ==
    ExitHandled =>
        /\ state.current_section = NoneVal
        /\ Len(last.out) = 1
        /\ last.out[1].role = "assistant"
        /\ \/ last.out[1].kind \in ExitKinds
           \/ /\ probe.decision.answer # <<>>
              /\ last.out[1] = TextMessage("text", probe.decision.answer)
        /\ state.resume_sections = probe.before.resume_sections
        /\ state.section_objects = probe.before.section_objects
        /\ state.cv_summary = probe.before.cv_summary

\* a node has left its section on an exit phrase without asking for a decision
C25_Witness ==
    /\ ExitHandled
    /\ probe.user_text \in WithExitPhrase
    /\ ~probe.decided
    /\ last.llm_calls = 0
    /\ last.out = <<TextMessage("leaving_section", <<>>)>>
    /\ state.current_section = NoneVal

\* the probed node got a switch decision whose route is one of SECTION_NAMES
ValidSwitch ==
    /\ probe.on
    /\ probe.decided
    /\ probe.decision.action = "switch"
    /\ \E i \in 1..Len(SECTION_NAMES) : SECTION_NAMES[i] = probe.decision.route

\* C26: a switch decision whose route is one of the fixed section names
\* sets current_section to the route and leaves resume_sections,
\* section_objects and cv_summary as they were, whether or not the target
\* has an entry in section_objects.
C26_ValidSwitchTaken ==
    ValidSwitch =>
        /\ state.current_section = probe.decision.route
        /\ state.resume_sections = probe.before.resume_sections
        /\ state.section_objects = probe.before.section_objects
        /\ state.cv_summary = probe.before.cv_summary

\* ---- claims about the CV Summary Aggregator (SummarySpec)

\* the answers the probed aggregator was given, trimmed, the empty ones left out
GivenAnswers ==
    LET given == probe.before.recommended_answers[probe.section]
    IN  SelectSeq([i \in 1..Len(given) |-> Strip(given[i])], LAMBDA a : a # <<>>)

\* the aggregator built the bullets itself: offline, or online on a
\* response without usable section_points
Deterministic ==
    /\ probe.on
    /\ Len(GivenAnswers) > 0
    /\ \/ offline
       \/ probe.response \in {"no_json", "undecodable", "no_section_points"}

\* the negation/lack lexicon
LEXICON ==
    {<<"n","o">>,
     <<"d","o","n","'","t">>,
     <<"h","a","v","e","n","'","t">>,
     <<"n","e","v","e","r">>,
     <<"n","o","t">>,
     <<"l","a","c","k">>,
     <<"u","n","f","a","m","i","l","i","a","r">>,
     <<"m","i","s","s","i","n","g">>}

\* the sign of an answer: '-' when its lower-cased text has a lexicon term
Sign(answer) ==
    IF \E term \in LEXICON : Contains(Lower(answer), term) THEN "-" ELSE "+"

\* C27: in the deterministic path, offline and online alike, the bullet of
\* each non-empty answer begins with '-' when the lower-cased answer has a
\* term of the lexicon as a substring, and with '+' otherwise.
C27_SignByLexicon ==
    Deterministic =>
        state.cv_summary[probe.section] =
            JoinLines([i \in 1..Len(GivenAnswers) |->
                          <<Sign(GivenAnswers[i])>> \o Take(GivenAnswers[i], 100)])

\* the text is the newline-joined bullets of the given answers, each a sign
\* followed by at most the first 100 characters of the answer
BulletsOfGiven(text) ==
    \E signs \in [1..Len(GivenAnswers) -> {"+", "-"}] :
        text = JoinLines([i \in 1..Len(GivenAnswers) |->
                             <<signs[i]>> \o Take(GivenAnswers[i], 100)])

\* C28: in the deterministic path summary[section_name] is the newline-joined
\* bullets of the section's non-empty (trimmed) answers, each cut to at most
\* 100 characters, in place of the previous value; the entries of the other
\* sections are unchanged; with no non-empty answer the summary is unchanged.
C28_SectionEntryReplaced ==
    /\ Deterministic =>
          /\ BulletsOfGiven(state.cv_summary[probe.section])
          /\ DOMAIN state.cv_summary = DOMAIN probe.before.cv_summary \cup {probe.section}
          /\ \A s \in DOMAIN probe.before.cv_summary \ {probe.section} :
                state.cv_summary[s] = probe.before.cv_summary[s]
    /\ (probe.on /\ Len(GivenAnswers) = 0) =>
          state.cv_summary = probe.before.cv_summary

\* two answers, one of 105 characters, have replaced the previous text of
\* the section by two bullets of 14 and 101 characters, beside another entry
C28_Witness ==
    /\ Deterministic
    /\ Len(GivenAnswers) = 2
    /\ Len(GivenAnswers[1]) = 13
    /\ Len(GivenAnswers[2]) = 105
    /\ probe.before.cv_summary # EmptyMap
    /\ state.cv_summary[probe.section] # probe.before.cv_summary[probe.section]
    /\ Len(state.cv_summary[probe.section]) = 14 + 1 + 101
    /\ state.cv_summary["education"] = probe.before.cv_summary["education"]

\* ---- further claims about the parser (RouterProbeSpec)

\* the object the parser located in the raw text of the probed response
Located == CHOOSE o \in JsonObjects : o.text = json_match(RawText)

\* C29: from a located JSON object with an action the parser returns a
\* decision whose action is one of answer, route, stay, switch, exit, apply:
\* the object's own action when it is one of them and answer otherwise, the
\* other fields being those of the object.
C29_UnknownActionCoerced ==
    (Parsed /\ LocatedDecision(RawText)) =>
        /\ probe.parsed.raised = "no"
        /\ probe.parsed.decision.action =
              (IF Located.action \in {"answer", "route", "stay", "switch", "exit", "apply"}
               THEN Located.action ELSE "answer")
        /\ probe.parsed.decision.route = Located.route

\* the aggregator of the probed run asked the completion service
AskedForSummary ==
    /\ probe.on
    /\ ~offline
    /\ Len(GivenAnswers) > 0

\* C30: online, a response without a JSON object, with an object that does
\* not decode, or with an object without section_points makes the aggregator
\* store the bullets it builds itself for the section; a completion call
\* that fails leaves the summary as it was.
C30_MalformedFallsBack ==
    AskedForSummary =>
        /\ probe.response \in {"no_json", "undecodable", "no_section_points"}
              => /\ probe.section \in DOMAIN state.cv_summary
                 /\ BulletsOfGiven(state.cv_summary[probe.section])
        /\ probe.response = "error" => state.cv_summary = probe.before.cv_summary
        /\ last.llm_calls = 1

\* an undecodable response has made the aggregator store its own bullet in
\* place of the previous text
C30_Witness ==
    /\ AskedForSummary
    /\ probe.response = "undecodable"
    /\ probe.before.cv_summary # EmptyMap
    /\ Len(GivenAnswers) = 1
    /\ state.cv_summary[probe.section] = <<"+">> \o GivenAnswers[1]
    /\ state.cv_summary # probe.before.cv_summary

C32_ScoreInRange ==
    \A s \in DOMAIN state.section_objects :
        state.section_objects[s].alignment_score \in 0..100

\* the probed decision carries question_matches or updated_answers
WithPayload ==
    /\ probe.on
    /\ probe.decided
    /\ probe.decision.has_question_matches \/ probe.decision.has_updated_answers

\* the probed decision is an apply with content to apply
AppliesContent ==
    /\ probe.decision.action = "apply"
    /\ Truthy(probe.decision.updated_section_content)

\* the summary the aggregator computes when it reads the reconciled answers
SummaryOfReconciled ==
    IF Len(probe.questions) > 0 /\ Len(Reconciled) > 0
    THEN update_cv_summary(probe.before, offline, Probed, probe.questions, Reconciled,
                           probe.summary).summary
    ELSE probe.before.cv_summary

\* C33: a decision that carries question_matches or updated_answers is
\* reconciled into the answer array of the active section whatever its
\* action; with action apply the aggregator reads the reconciled answers, so
\* the summary is the one computed from them.
C33_ReconciledOnEveryAction ==
    WithPayload =>
        IF AppliesContent
        THEN state.cv_summary = SummaryOfReconciled
        ELSE StoredAfter = Reconciled

\* a section node has run in the turn and left current_section null: the
\* section was exited, and the graph goes on to the router
Exited ==
    /\ pc = AnalyzeUserQuery
    /\ turn.ran \cap SectionNameSet # {}
    /\ state.current_section = NoneVal

\* C34: a turn in which a section node exits ends in general chat mode: it
\* reaches END with current_section null and enters no section node again.
C34_ExitEndsInGeneralChat ==
    [][Exited => (pc' = END /\ state'.current_section = NoneVal)]_vars

\* C35: whenever the node created for section X is about to run,
\* state.current_section is X, so what the node reads and writes under
\* state.current_section is the data of its own section.
C35_NodeRunsOwnSection ==
    pc \in SectionNameSet => state.current_section = pc

\* the node of education is about to run after a switch out of skills
C35_Witness ==
    /\ pc = "education"
    /\ "skills" \in turn.ran
    /\ state.src_node = "skills"
    /\ state.current_section = "education"

\* C36: after every node execution the label route_to_section returns is a
\* key of the routing map registered for the node that ran: the router's
\* map for AnalyzeUserQuery, the section map for a section node.
C36_LabelIsMapped ==
    (last.node # NoneVal /\ pc # "crashed")
        => last.label \in (IF last.node = AnalyzeUserQuery THEN routing_map
                           ELSE section_routing_map)

\* C37: in offline mode a conversation that is in no section stays in no
\* section through every turn, whatever the user types, and
\* resume_sections, section_objects and cv_summary never change.
C37_OfflineStaysGeneral ==
    [][(offline /\ state.current_section = NoneVal)
          => /\ state'.current_section = NoneVal
             /\ state'.resume_sections = state.resume_sections
             /\ state'.section_objects = state.section_objects
             /\ state'.cv_summary = state.cv_summary]_vars

\* offline, the router has answered a turn whose utterance is the trigger of skills
C37_Witness ==
    /\ offline
    /\ pc = END
    /\ last.node = AnalyzeUserQuery
    /\ state.context.user_text = <<"/","s","k","i","l","l","s">>
    /\ \E i \in 1..Len(last.out) : last.out[i].text = OFFLINE_ANSWER
    /\ state.current_section = NoneVal

\* the fields of ResumeBuilderState that hold the conversation
ConversationFields ==
    {"jd_summary", "resume_sections", "resume_schema", "section_objects",
     "current_section", "recommended_answers", "cv_summary", "context"}

\* C38: the clone the graph runners take of the state of a finished turn
\* has the same value as the original in every conversation field.
C38_ClonePreservesConversation ==
    (pc = END /\ ui = "graph")
        => \A f \in ConversationFields : clone_state(state)[f] = state[f]

\* C39: the execution of a section node never ends in an unhandled error:
\* from every reachable state, those with resume_schema or resume_sections
\* absent included, the node returns with the state or a reply.
C39_SectionNodeReturns ==
    last.node \in SectionNameSet => pc # "crashed"

\* a turn starts in a section with an utterance that is an exit phrase and
\* holds the trigger of no section
ExitTurnStarts ==
    /\ pc = AnalyzeUserQuery
    /\ turn.ran = {}
    /\ state.current_section # NoneVal
    /\ state.context.has_user
    /\ ExitPhrase[state.context.user_text]
    /\ DirectRouting[state.context.user_text] = NoneVal

\* C40: a turn that starts in a section with an exit phrase sets
\* current_section to null before the graph stops running it; no reachable
\* state keeps the user in a section they ask to leave.
C40_ExitPhraseLeaves ==
    ExitTurnStarts ~> (state.current_section = NoneVal)

====
